---- MODULE Spec2Model ----
(***************************************************************************)
(* Session lifecycle of the wacap wrapper: SessionRegistry, Session and    *)
(* the connection.update handler, as a state machine over the JavaScript   *)
(* event loop.  Every action is one run-to-completion slice of a handler:  *)
(* the code between two awaits.  The protocol socket, the credential files *)
(* and the timers are the environment.                                     *)
(***************************************************************************)
EXTENDS Integers, Sequences, FiniteSets, TLC

\* ------------------------------------------------------------------ bounds
MaxInst == 2            \* Session objects that exist at the same time
MaxSock == 2            \* protocol sockets that are live at the same time
MaxLoTimers == 1        \* pending handleLoggedOut delays per Session
MaxRetriesOverride == 1 \* the maxRetries value create() is given in Spec
MaxCalls == 3           \* calls of the public API (create, destroy, logout, start, stop)
MaxNotifs == 2          \* data notifications the socket raises
MaxItems == 2           \* messages, contacts or chats in one notification
MaxSubs == 2            \* subscribers of one bus
MaxObjs == 4            \* Sessions a registry makes in a run of the bulk operations
MaxJobs == 2            \* calls of shutdownAll, startByIds and restartAll in a run
MaxStorageCalls == 3    \* calls made on the storage adapters
MaxPieces == 3          \* pieces a formatJid input is put together from
MaxTries == 3           \* the largest maxRetries retryWithBackoff is given

\* ------------------------------------------------------- program constants
DefaultMaxRetries == 5  \* config.maxRetries || 5
BackoffBase == 2000     \* 2000 * 2^(retryCount-1)
BackoffCeiling == 30000 \* Math.min(30000, ...)

NullSocket == 0         \* this.socket === null
DeadSocket == -1        \* this.socket refers to a socket that has ended

SessionIds == {"s1"}
TwoSessionIds == {"s1", "s2"}
Inst == 1..MaxInst
Sock == 1..MaxSock
NoInst == 0
NoId == "-"
NoCreds == "-"

\* The credential directory of a session id: no registered credentials, ones
\* the server accepts, or ones the server has revoked.
Creds == {"none", "valid", "revoked"}

SessionStatus == {"disconnected", "connecting", "qr", "connected", "error"}

VARIABLES
  sessions,   \* SessionRegistry.sessions: session id -> Session (NoInst: no entry)
  sess,       \* the Session objects: fields and the position of their async calls
  sock,       \* the protocol sockets made by makeWASocket
  disk,       \* the credential directory sessionsPath/<id> of each session id
  last,       \* the last slice run: operation, Session, events published (in order)
  calls,      \* the number of calls of the public API made so far
  subs,       \* the subscribers of the session bus and of the global bus
  notifs,     \* the data notifications the socket has raised, in order
  tasks,      \* the run of the handler of each notification
  store,      \* the records the Storage Adapter has written
  pubs,       \* the events published through emitBoth, in order
  registry,   \* bulk operations: the entries of the sessions Map, in insertion order
  ctrl,       \* bulk operations: the Sessions made, by the outcome of start() and stop()
  job,        \* bulk operations: the call of shutdownAll, startByIds or restartAll in progress
  cfg,        \* configuration: base, override and the configuration of the Session made
  jid,        \* formatJid: input, hints and results
  sqlite,     \* storage: the tables of the SQLiteStorageAdapter
  prisma,     \* storage: the tables behind the PrismaStorageAdapter
  ret,        \* storage: the last call and what each adapter returned
  rty         \* retryWithBackoff: arguments, loop position and what it did

lvars == <<sessions, sess, sock, disk, last, calls>>

hvars == <<subs, notifs, tasks, store, pubs>>

bvars == <<registry, ctrl, job>>

xvars == <<cfg, jid, sqlite, prisma, ret, rty>>

vars == <<sessions, sess, sock, disk, last, calls, subs, notifs, tasks, store, pubs,
          registry, ctrl, job, cfg, jid, sqlite, prisma, ret, rty>>

\* ------------------------------------------------------------------ helpers
Min(a, b) == IF a < b THEN a ELSE b

RECURSIVE Pow2(_)
Pow2(n) == IF n <= 0 THEN 1 ELSE 2 * Pow2(n - 1)

\* Session.constructor: maxRetries: config.maxRetries || 5
EffectiveMaxRetries(v) == IF v = 0 THEN DefaultMaxRetries ELSE v

\* Session field initialisers and constructor
NewSession(id, mr) ==
  [ sessionId       |-> id,
    maxRetries      |-> EffectiveMaxRetries(mr),
    socket          |-> NullSocket,
    isConnecting    |-> FALSE,
    shouldReconnect |-> TRUE,
    reconnecting    |-> FALSE,
    retryCount      |-> 0,
    status          |-> "disconnected",
    connPc          |-> "idle",    \* connect(): idle | auth | socket
    connBy          |-> "none",    \* who awaits the running connect()
    connCreds       |-> NoCreds,   \* state.creds read by useMultiFileAuthState
    rcPending       |-> FALSE,     \* handleReconnect is in await delay(backoffMs)
    backoffMs       |-> 0,         \* the delay it last computed since retryCount was 0
    loTimers        |-> 0,         \* handleLoggedOut calls in await delay(1000)
    stopPc          |-> "idle",    \* stop(): idle | user | destroy | logout
    \* history of the run, read by the properties only
    closes          |-> 0,         \* transient closes handleReconnect took up since
                                   \* retryCount was last set to 0
    afterLO         |-> FALSE,     \* a logged-out close was handled and no connect()
                                   \* has begun since
    connAfterLO     |-> FALSE ]    \* the running connect() is the first since then

NoSessionRec == [NewSession(NoId, 0) EXCEPT !.maxRetries = 0, !.shouldReconnect = FALSE]

FreeSock == [owner |-> NoInst, phase |-> "free", listeners |-> FALSE, creds |-> NoCreds]

Alive(i) == sess[i].sessionId # NoId

LiveSocks == {k \in Sock : sock[k].phase # "free"}

LiveSocksOf(id) == {k \in LiveSocks : sess[sock[k].owner].sessionId = id}

OwnedSocks(i) == {k \in LiveSocks : sock[k].owner = i}

\* isActive, had it read the status instead of the socket
isActiveByStatus(i) == sess[i].status = "connected"

\* Session.isActive
isActive(i) == sess[i].socket # NullSocket

\* No call of the Session is suspended and it holds no socket.
Quiescent(i) ==
  /\ sess[i].socket = NullSocket
  /\ sess[i].connPc = "idle"
  /\ ~sess[i].rcPending
  /\ sess[i].loTimers = 0
  /\ sess[i].stopPc = "idle"
  /\ OwnedSocks(i) = {}

Ev(op, i, evs) == [op |-> op, inst |-> i, ev |-> evs]

\* Session.emitBoth: the event is published on the session bus and on the
\* global bus, in one call.
Published(l, e) == \E n \in 1..Len(l.ev) : l.ev[n] = e

\* A slice of the environment or of the event loop that calls nothing of the
\* public API and publishes no event leaves no record.
Quiet == Ev("-", NoInst, <<>>)

\* A Session object that is unregistered, holds no socket and has no call
\* suspended is unreachable: its reference is dropped and its slot is free.
Collect(ss, reg, sk) ==
  [i \in Inst |->
     IF /\ \A id \in DOMAIN reg : reg[id] # i
        /\ ss[i].socket = NullSocket
        /\ ss[i].connPc = "idle"
        /\ ~ss[i].rcPending
        /\ ss[i].loTimers = 0
        /\ ss[i].stopPc = "idle"
        /\ \A k \in Sock : sk[k].phase # "free" => sk[k].owner # i
       THEN NoSessionRec ELSE ss[i]]

\* The state after a slice of the event loop.
Commit(reg, ss, sk, dk, l) ==
  /\ sessions' = reg
  /\ sess' = Collect(ss, reg, sk)
  /\ sock' = sk
  /\ disk' = dk
  /\ last' = l
  /\ calls' = calls
  /\ UNCHANGED <<hvars, bvars, xvars>>

\* The state after the first slice of a call of the public API.
Call(reg, ss, sk, dk, l) ==
  /\ calls < MaxCalls
  /\ sessions' = reg
  /\ sess' = Collect(ss, reg, sk)
  /\ sock' = sk
  /\ disk' = dk
  /\ last' = l
  /\ calls' = calls + 1
  /\ UNCHANGED <<hvars, bvars, xvars>>

\* Session.updateStatus
updateStatus(s, st) == [s EXCEPT !.status = st]

\* The synchronous head of Session.connect, up to its first await.
ConnectHead(s, by) ==
  IF s.isConnecting \/ s.reconnecting
    THEN s
    ELSE [updateStatus(s, "connecting") EXCEPT
            !.isConnecting = TRUE, !.connPc = "auth", !.connBy = by,
            !.connAfterLO = s.afterLO, !.afterLO = FALSE]

\* A start guard that looks at the socket only
StartRefusedBySocket(s) == s.socket # NullSocket

\* Session.start fails when connecting or holding a socket.
StartRefused(s) == s.isConnecting \/ s.socket # NullSocket

\* this.retryCount = 0 (start, stop, handleLoggedOut, resetRetry)
ResetRetry(s) == [s EXCEPT !.retryCount = 0, !.closes = 0, !.backoffMs = 0]

\* A Session the bulk operations have not made
NoCtrl == [id |-> NoId, socket |-> FALSE, phase |-> "none"]

\* No bulk operation in progress
NoJob ==
  [ op      |-> "none",   \* none | shutdownAll | startByIds | restartAll
    pc      |-> "idle",   \* idle (it has ended) | shutdown | start
    pos     |-> 0,        \* the position of its loop
    ids     |-> <<>>,     \* the id list of startByIds, the snapshot of restartAll
    result  |-> "none",   \* how it ended: resolved | rejected
    n       |-> 0,        \* bulk operations called so far
    \* history of the call, read by the properties only
    old     |-> {},       \* the Sessions registered when it was called
    stopped |-> {},       \* the Sessions it has called stop() on
    created |-> {} ]      \* the positions of ids it has called create() for

\* The value of a key that an object does not have
Absent == "absent"

\* The tables of a storage adapter after init()
EmptyDb == [sessions |-> {}, messages |-> {}, contacts |-> {}, chats |-> {}]

\* No create() with an override made
NoQrEvent == [type |-> "none", qr |-> Absent, qrBase64 |-> Absent, buses |-> {}]

NoCfg == [base |-> Absent, override |-> Absent, config |-> Absent, made |-> FALSE,
          status |-> "disconnected", event |-> NoQrEvent]

\* No formatJid call made
NoJid == [input |-> <<>>, isGroup |-> Absent, isLid |-> Absent,
          out |-> <<>>, again |-> <<>>, pc |-> "idle"]

\* No call of a storage adapter made
NoRet == [op |-> "none", sessionId |-> NoId, id |-> NoId, jid |-> NoId,
          data |-> NoId, hit |-> FALSE, sqlite |-> {}, prisma |-> {}, n |-> 0]

Undefined == "undefined"

\* retryWithBackoff not called
NoRetry ==
  [ maxRetries |-> 0, baseDelay |-> 0, i |-> 0, pc |-> "idle", calls |-> 0,
    lastError |-> Undefined, result |-> Absent,
    \* history of the call, read by the properties only
    errs  |-> <<>>,    \* the values fn rejected with, in order
    slept |-> <<>> ]   \* the delays slept, in order

\* No call made: nothing merged, formatted, stored or retried
NoCalls ==
  /\ cfg = NoCfg
  /\ jid = NoJid
  /\ sqlite = EmptyDb
  /\ prisma = EmptyDb
  /\ ret = NoRet
  /\ rty = NoRetry

\* No subscriber yet, no notification raised, nothing written or published;
\* no bulk operation called.
NoTraffic ==
  /\ subs = [local |-> <<>>, global |-> <<>>]
  /\ notifs = <<>>
  /\ tasks = <<>>
  /\ store = {}
  /\ pubs = <<>>
  /\ registry = <<>>
  /\ ctrl = [o \in 1..MaxObjs |-> NoCtrl]
  /\ job = NoJob

\* A registry without Sessions, no credentials stored
NoSessions ==
  /\ sessions = [id \in SessionIds |-> NoInst]
  /\ sess = [i \in Inst |-> NoSessionRec]
  /\ sock = [k \in Sock |-> FreeSock]
  /\ disk = [id \in SessionIds |-> "none"]
  /\ last = Ev("init", NoInst, <<>>)
  /\ calls = 0

\* The synchronous head of Session.start once its guard has passed.
StartHead(s) ==
  ConnectHead(updateStatus(ResetRetry([s EXCEPT !.shouldReconnect = TRUE]),
                           "connecting"), "start")

Init ==
  /\ sessions = [id \in SessionIds |-> NoInst]
  /\ sess = [i \in Inst |-> NoSessionRec]
  /\ sock = [k \in Sock |-> FreeSock]
  /\ disk \in [SessionIds -> {"none", "valid"}]
  /\ last = Ev("init", NoInst, <<>>)
  /\ calls = 0
  /\ NoTraffic
  /\ NoCalls

\* ---------------------------------------------------------------- registry
\* SessionRegistry.create
Create(id, mr) ==
  LET e == sessions[id] IN
  IF e # NoInst /\ isActive(e)
    THEN Call(sessions, sess, sock, disk, Ev("create.existing", e, <<>>))
    ELSE LET free == {i \in Inst : ~Alive(i) \/ (i = e /\ Quiescent(e))}
         IN /\ free # {}
            /\ LET i == CHOOSE x \in free : \A y \in free : x <= y
               IN Call([sessions EXCEPT ![id] = i],
                         [sess EXCEPT ![i] = StartHead(NewSession(id, mr))],
                         sock, disk, Ev("create.new", i, <<>>))

\* Session.start, called on a Session the caller holds
Start(i) ==
  /\ Alive(i)
  /\ IF StartRefused(sess[i])
       THEN Call(sessions, sess, sock, disk, Ev("start.throw", i, <<>>))
       ELSE Call(sessions, [sess EXCEPT ![i] = StartHead(sess[i])], sock, disk,
                   Ev("start", i, <<>>))

\* ----------------------------------------------------------- credentials
\* The server revokes the registered credentials of a session id: every copy
\* of them (on disk, read by a running connect, held by a socket) is revoked.
RevokedDisk(dk, id) == [dk EXCEPT ![id] = IF @ = "valid" THEN "revoked" ELSE @]

RevokedSocks(sk, id) ==
  [k \in Sock |->
     IF sk[k].phase # "free" /\ sess[sk[k].owner].sessionId = id /\ sk[k].creds = "valid"
       THEN [sk[k] EXCEPT !.creds = "revoked"] ELSE sk[k]]

RevokedSess(ss, id) ==
  [i \in Inst |->
     IF ss[i].sessionId = id /\ ss[i].connCreds = "valid"
       THEN [ss[i] EXCEPT !.connCreds = "revoked"] ELSE ss[i]]

\* A reset that removes the directory of every session
resetAuthStateAll(dk, id) == [x \in DOMAIN dk |-> "none"]

\* Session.resetAuthState: rmSync + mkdirSync of the session directory
resetAuthState(dk, id) == [dk EXCEPT ![id] = "none"]

\* ----------------------------------------------------------------- connect
\* connect(): await useMultiFileAuthState(this.sessionPath)
ConnectLoad(i) ==
  /\ sess[i].connPc = "auth"
  /\ Commit(sessions,
            [sess EXCEPT ![i].connPc = "socket",
                         ![i].connCreds = disk[sess[i].sessionId]],
            sock, disk, Quiet)

\* connect(): makeWASocket, setupEventHandlers, SESSION_START, finally
ConnectMakeSocket(i) ==
  /\ sess[i].connPc = "socket"
  /\ \E k \in Sock :
       /\ sock[k].phase = "free"
       /\ \A j \in Sock : sock[j].phase = "free" => k <= j
       /\ Commit(sessions,
                 [sess EXCEPT ![i].socket = k,
                              ![i].isConnecting = FALSE,
                              ![i].connPc = "idle",
                              ![i].connBy = "none",
                              ![i].connCreds = NoCreds,
                              ![i].connAfterLO = FALSE],
                 [sock EXCEPT ![k] = [owner |-> i, phase |-> "conn",
                                      listeners |-> TRUE,
                                      creds |-> sess[i].connCreds]],
                 disk, Ev("connect.socket", i, <<"session.start">>))

\* connect(): an awaited call rejects: catch (updateStatus('error')), finally
ConnectFail(i) ==
  /\ sess[i].connPc = "socket"
  /\ Commit(sessions,
            [sess EXCEPT ![i] = [updateStatus(sess[i], "error") EXCEPT
                                   !.isConnecting = FALSE,
                                   !.connPc = "idle",
                                   !.connBy = "none",
                                   !.connCreds = NoCreds,
                                   !.connAfterLO = FALSE]],
            sock, disk, Ev("connect.fail", i, <<>>))

\* ------------------------------------------------- connection.update handler
\* A delay that grows by the base at every attempt
BackoffLinear(n) == Min(BackoffCeiling, BackoffBase * n)

\* Session.handleReconnect, up to await delay(backoffMs) or its end
Backoff(n) == Min(BackoffCeiling, BackoffBase * Pow2(n - 1))

\* A retry budget of one attempt more
RetryAllowedInclusive(s) == s.retryCount <= s.maxRetries

RetryAllowed(s) == s.retryCount < s.maxRetries

handleReconnect(s) ==
  IF ~s.shouldReconnect \/ s.reconnecting
    THEN [s |-> s, ev |-> <<>>]
    ELSE IF RetryAllowed(s)
      THEN [s |-> [s EXCEPT !.reconnecting = TRUE,
                            !.retryCount = s.retryCount + 1,
                            !.rcPending = TRUE,
                            !.backoffMs = Backoff(s.retryCount + 1),
                            !.closes = s.closes + 1],
            ev |-> <<>>]
      ELSE [s |-> updateStatus([s EXCEPT !.reconnecting = FALSE,
                                         !.closes = s.closes + 1], "error"),
            ev |-> <<"session.error">>]

\* Session.handleLoggedOut, up to await delay(1000) or its early return.  The
\* handler has already set this.socket to null, so cleanupSocketListeners
\* finds no socket; SockClose wipes the credential directory (resetAuthState).
handleLoggedOut(s) ==
  LET s1 == [ResetRetry(updateStatus(s, "disconnected")) EXCEPT
               !.socket = NullSocket, !.afterLO = TRUE]
  IN IF ~s.shouldReconnect
       THEN [s |-> s1, ev |-> <<>>]
       ELSE [s |-> [s1 EXCEPT !.loTimers = s.loTimers + 1],
             ev |-> <<"session.error">>]

\* registerConnectionHandlers: connection === 'close'
onClose(s, loggedOut) ==
  LET s1 == updateStatus([s EXCEPT !.socket = NullSocket],
                         IF loggedOut THEN "disconnected" ELSE "connecting")
      r  == IF loggedOut THEN handleLoggedOut(s1) ELSE handleReconnect(s1)
  IN [s |-> r.s, ev |-> <<"connection.update", "connection.close">> \o r.ev]

\* The socket reports connection 'close' and is gone.
SockClose(k, loggedOut) ==
  LET i == sock[k].owner
      id == sess[i].sessionId
      sk == [sock EXCEPT ![k] = FreeSock]
  IN /\ sock[k].phase # "free"
     /\ loggedOut => sock[k].creds = "revoked"
     /\ (loggedOut /\ sock[k].listeners) => sess[i].loTimers < MaxLoTimers
     /\ IF sock[k].listeners
          THEN LET r == onClose(sess[i], loggedOut)
               IN Commit(sessions, [sess EXCEPT ![i] = r.s], sk,
                         IF loggedOut THEN resetAuthState(disk, id) ELSE disk,
                         Ev(IF loggedOut THEN "close.loggedOut" ELSE "close", i, r.ev))
          ELSE Commit(sessions,
                      [j \in Inst |->
                         IF sess[j].socket = k
                           THEN [sess[j] EXCEPT !.socket = DeadSocket] ELSE sess[j]],
                      sk, disk, Quiet)

\* registerConnectionHandlers: update.qr
SockQR(k) ==
  LET i == sock[k].owner IN
  /\ sock[k].phase = "conn"
  /\ sock[k].creds = "none"
  /\ sock[k].listeners
  /\ Commit(sessions, [sess EXCEPT ![i] = updateStatus(sess[i], "qr")],
            [sock EXCEPT ![k].phase = "qr"], disk,
            Ev("qr", i, <<"connection.update", "qr.code">>))

\* The QR code is scanned: creds.update, handled by persistCreds (saveCreds)
SockPair(k) ==
  LET i == sock[k].owner IN
  /\ sock[k].phase = "qr"
  /\ sock[k].creds = "none"
  /\ sock[k].listeners
  /\ Commit(sessions, sess, [sock EXCEPT ![k].creds = "valid"],
            [disk EXCEPT ![sess[i].sessionId] = "valid"], Quiet)

\* registerConnectionHandlers: connection === 'open'
SockOpen(k) ==
  LET i == sock[k].owner IN
  /\ sock[k].phase \in {"conn", "qr"}
  /\ sock[k].creds = "valid"
  /\ sock[k].listeners
  /\ Commit(sessions,
            [sess EXCEPT ![i] =
               updateStatus(ResetRetry(sess[i]), "connected")],
            [sock EXCEPT ![k].phase = "open"], disk,
            Ev("open", i, <<"connection.update", "connection.open">>))

\* The account owner unlinks the device: the server revokes the credentials.
RemoteRevoke(id) ==
  /\ disk[id] = "valid" \/ \E k \in LiveSocksOf(id) : sock[k].creds = "valid"
  /\ Commit(sessions, RevokedSess(sess, id), RevokedSocks(sock, id),
            RevokedDisk(disk, id), Quiet)

\* ------------------------------------------------------------------ timers
\* Session.cleanupSocketListeners
cleanupSocketListeners(sk, s) ==
  IF s.socket \in Sock THEN [sk EXCEPT ![s.socket].listeners = FALSE] ELSE sk

\* handleReconnect after await delay(backoffMs)
ReconnectFire(i) ==
  /\ sess[i].rcPending
  /\ Commit(sessions,
            [sess EXCEPT ![i] =
               ConnectHead([sess[i] EXCEPT !.socket = NullSocket,
                                           !.reconnecting = FALSE,
                                           !.rcPending = FALSE], "reconnect")],
            cleanupSocketListeners(sock, sess[i]), disk, Quiet)

\* handleLoggedOut after await delay(1000)
LoggedOutFire(i) ==
  /\ sess[i].loTimers > 0
  /\ Commit(sessions,
            [sess EXCEPT ![i] =
               ConnectHead([sess[i] EXCEPT !.loTimers = sess[i].loTimers - 1],
                           "loggedOut")],
            sock, disk, Quiet)

\* -------------------------------------------------------------------- stop
\* socket.logout(): the registered device is removed server-side and the
\* socket ends.
SocketLogoutRevokes(k) == sock[k].phase = "open" /\ sock[k].creds = "valid"

\* Session.logout: as stop(), and it also revokes the credentials server-side
LogoutRevokes(by) == by = "logout"

\* A logout that leaves the credential storage as it is
LogoutCredsKept(dk, id, by) == dk

\* Session.logout: as stop(), and it also deletes the local credential storage
LogoutCreds(dk, id, by) == IF by = "logout" THEN resetAuthState(dk, id) ELSE dk

\* A delete that clears the collection
UnregisterAll(reg, id, by) ==
  IF by \in {"destroy", "logout"} THEN [x \in DOMAIN reg |-> NoInst] ELSE reg

\* SessionRegistry.destroy and SessionRegistry.logout: this.sessions.delete
Unregister(reg, id, by) ==
  IF by \in {"destroy", "logout"} THEN [reg EXCEPT ![id] = NoInst] ELSE reg

StopOp(by) == IF by = "user" THEN "stop" ELSE by

StopAwaitOp(by) ==
  IF by = "logout" THEN "logout.logout"
  ELSE IF by = "destroy" THEN "destroy.logout" ELSE "stop.logout"

\* Session.stop, up to await this.socket.logout() or, without a socket, to
\* its end.  `by` is the caller awaiting it: user | destroy | logout.
\* A caller awaits a stop() of the Session before it calls stop() on it again.
StopHead(i, by) ==
  LET s  == sess[i]
      id == s.sessionId
      s1 == ResetRetry([s EXCEPT !.shouldReconnect = FALSE])
      k  == s.socket
      rev == (k \in Sock /\ SocketLogoutRevokes(k)) \/ LogoutRevokes(by)
      sk == IF k \in Sock THEN [sock EXCEPT ![k] = FreeSock] ELSE sock
  IN /\ Alive(i)
     /\ s.stopPc = "idle"
     /\ IF k = NullSocket
          THEN LET ss == [sess EXCEPT ![i] = updateStatus(s1, "disconnected")]
               IN Call(Unregister(sessions, id, by),
                       IF rev THEN RevokedSess(ss, id) ELSE ss,
                       IF rev THEN RevokedSocks(sock, id) ELSE sock,
                       LogoutCreds(IF rev THEN RevokedDisk(disk, id) ELSE disk, id, by),
                       Ev(StopOp(by), i, <<"session.stop">>))
          ELSE LET ss == [sess EXCEPT ![i] = [s1 EXCEPT !.socket = DeadSocket,
                                                        !.stopPc = by]]
               IN Call(sessions,
                       IF rev THEN RevokedSess(ss, id) ELSE ss,
                       IF rev THEN RevokedSocks(sk, id) ELSE sk,
                       IF rev THEN RevokedDisk(disk, id) ELSE disk,
                       Ev(StopAwaitOp(by), i, <<>>))

\* Session.stop after await this.socket.logout(); the registry method that
\* awaited it then deletes the entry of the id.
StopFinish(i) ==
  LET s == sess[i] IN
  /\ s.stopPc # "idle"
  /\ Commit(Unregister(sessions, s.sessionId, s.stopPc),
            [sess EXCEPT ![i] =
               updateStatus([s EXCEPT !.socket = NullSocket, !.stopPc = "idle"],
                            "disconnected")],
            sock, LogoutCreds(disk, s.sessionId, s.stopPc),
            Ev(StopOp(s.stopPc), i, <<"session.stop">>))

\* Session.stop, called on a Session the caller holds
Stop(i) == StopHead(i, "user")

\* SessionRegistry.destroy
Destroy(id) ==
  IF sessions[id] = NoInst
    THEN Call(sessions, sess, sock, disk, Ev("destroy.absent", NoInst, <<>>))
    ELSE StopHead(sessions[id], "destroy")

\* SessionRegistry.logout
Logout(id) ==
  IF sessions[id] = NoInst
    THEN Call(sessions, sess, sock, disk, Ev("logout.absent", NoInst, <<>>))
    ELSE StopHead(sessions[id], "logout")

\* One slice of the event loop; create() is given maxRetries `mr` (0: none).
Step(mr) ==
  \/ \E id \in DOMAIN sessions : Create(id, mr)
  \/ \E i \in Inst : Start(i)
  \/ \E i \in Inst : Stop(i)
  \/ \E id \in DOMAIN sessions : Destroy(id)
  \/ \E id \in DOMAIN sessions : Logout(id)
  \/ \E i \in Inst : StopFinish(i)
  \/ \E i \in Inst : ConnectLoad(i)
  \/ \E i \in Inst : ConnectMakeSocket(i)
  \/ \E i \in Inst : ConnectFail(i)
  \/ \E k \in Sock : SockQR(k)
  \/ \E k \in Sock : SockPair(k)
  \/ \E k \in Sock : SockOpen(k)
  \/ \E k \in Sock, lo \in BOOLEAN : SockClose(k, lo)
  \/ \E id \in DOMAIN sessions : RemoteRevoke(id)
  \/ \E i \in Inst : ReconnectFire(i)
  \/ \E i \in Inst : LoggedOutFire(i)

Next == Step(MaxRetriesOverride)

Spec == Init /\ [][Next]_vars

\* Sessions created without a maxRetries override: the default of 5 applies.
NextDefault == Step(0)

\* A registry used for two session ids, neither of them paired before.
InitTwo ==
  /\ sessions = [id \in TwoSessionIds |-> NoInst]
  /\ sess = [i \in Inst |-> NoSessionRec]
  /\ sock = [k \in Sock |-> FreeSock]
  /\ disk = [id \in TwoSessionIds |-> "none"]
  /\ last = Ev("init", NoInst, <<>>)
  /\ calls = 0
  /\ NoTraffic
  /\ NoCalls

SpecTwo == InitTwo /\ [][Next]_vars

SpecDefault == Init /\ [][NextDefault]_vars

\* ======================================================== replaced sockets
\* A socket that has reported 'close' is not always gone at once: the object
\* stays, with whatever listeners it still has, and may notify again (the
\* later notification is SockClose, which also lets it go).  The handler has
\* set this.socket to null, so no later cleanupSocketListeners reaches it.
SockCloseLingering(k, loggedOut) ==
  LET i == sock[k].owner
      id == sess[i].sessionId
      r == onClose(sess[i], loggedOut)
  IN /\ sock[k].phase \in {"conn", "qr", "open"}
     /\ sock[k].listeners
     /\ loggedOut => sock[k].creds = "revoked"
     /\ loggedOut => sess[i].loTimers < MaxLoTimers
     /\ Commit(sessions, [sess EXCEPT ![i] = r.s],
               [sock EXCEPT ![k].phase = "closed"],
               IF loggedOut THEN resetAuthState(disk, id) ELSE disk,
               Ev(IF loggedOut THEN "close.loggedOut" ELSE "close", i, r.ev))

\* One session is created and then left to its sockets and its timers
NextLate ==
  \/ \E id \in DOMAIN sessions : calls = 0 /\ Create(id, MaxRetriesOverride)
  \/ \E i \in Inst : ConnectLoad(i)
  \/ \E i \in Inst : ConnectMakeSocket(i)
  \/ \E i \in Inst : ConnectFail(i)
  \/ \E k \in Sock : SockQR(k)
  \/ \E k \in Sock : SockPair(k)
  \/ \E k \in Sock : SockOpen(k)
  \/ \E k \in Sock, lo \in BOOLEAN : SockClose(k, lo)
  \/ \E k \in Sock, lo \in BOOLEAN : SockCloseLingering(k, lo)
  \/ \E id \in DOMAIN sessions : RemoteRevoke(id)
  \/ \E i \in Inst : ReconnectFire(i)
  \/ \E i \in Inst : LoggedOutFire(i)

SpecLate == Init /\ [][NextLate]_vars

\* ======================================================= events and storage
\* The data handlers of one connected Session: the socket raises
\* notifications, each handler runs up to its awaits on the Storage Adapter,
\* and publishes through emitBoth to the subscribers of the two buses.
HandlerSession == "s1"

Now == "now"            \* new Date()

Kinds == {"messages.upsert", "contacts.update", "chats.upsert",
          "presence.update", "groups.update"}

FlagSeqs(F) == UNION {[1..m -> F] : m \in 0..MaxItems}

\* The items of a notification: for a message its key.fromMe, for a contact
\* whether it has an id, for a chat nothing that matters here.
Items(kind) ==
  CASE kind = "messages.upsert" -> FlagSeqs(BOOLEAN)
    [] kind = "contacts.update" -> FlagSeqs(BOOLEAN)
    [] kind = "chats.upsert"    -> FlagSeqs({TRUE})
    [] OTHER                    -> {<<>>}

\* EventManager.on and EventBus.on; a subscriber throws or returns.
Subscribe(bus, throws) ==
  /\ Len(subs[bus]) < MaxSubs
  /\ subs' = [subs EXCEPT ![bus] = Append(@, [throws |-> throws])]
  /\ UNCHANGED <<notifs, tasks, store, pubs>>
  /\ UNCHANGED <<lvars, bvars, xvars>>

\* eventemitter3 emit: the listeners run in the order of their registration
\* and nothing catches: one that throws ends the loop.
RunCount(hs) ==
  LET T == {h \in 1..Len(hs) : hs[h].throws}
  IN IF T = {} THEN Len(hs) ELSE CHOOSE h \in T : \A g \in T : h <= g

\* EventManager.emit and EventBus.emit
BusEmit(bus, hs) ==
  [ deliv |-> [h \in 1..RunCount(hs) |-> [bus |-> bus, h |-> h]],
    threw |-> \E h \in 1..Len(hs) : hs[h].throws ]

\* emitBoth: payload = { sessionId, timestamp: data.timestamp || new Date(), ...data }
emitBothPayload(sid, data) ==
  [ sessionId |-> IF data.sessionId = Absent THEN sid ELSE data.sessionId,
    timestamp |-> IF data.timestamp = Absent THEN Now ELSE data.timestamp ]

\* emitBoth: eventManager.emit, then globalBus.emit
emitBoth(sb) ==
  LET l == BusEmit("local", sb.local)
  IN IF l.threw
       THEN l
       ELSE LET g == BusEmit("global", sb.global)
            IN [deliv |-> l.deliv \o g.deliv, threw |-> g.threw]

\* The data the handlers pass to emit: neither sessionId nor timestamp.
HandlerData == [sessionId |-> Absent, timestamp |-> Absent]

\* ctx.emit(type, data) of the handler of notification n, for its item idx
\* (0: for the notification as a whole).
Publication(n, idx, type) ==
  LET r == emitBoth(subs)
  IN [ n |-> n, idx |-> idx, type |-> type,
       payload |-> emitBothPayload(HandlerSession, HandlerData),
       deliv |-> r.deliv, threw |-> r.threw ]

\* A handler that writes nothing
NeedsSaveNever(kind, flag) == FALSE

\* The items a handler passes to the Storage Adapter: every message, every
\* contact with an id, every chat.
NeedsSave(kind, flag) ==
  CASE kind = "messages.upsert" -> TRUE
    [] kind = "contacts.update" -> flag
    [] kind = "chats.upsert"    -> TRUE
    [] OTHER                    -> FALSE

\* The next item from j on that the handler awaits a write for (0: none)
NextSave(kind, items, j) ==
  LET S == {x \in j..Len(items) : NeedsSave(kind, items[x])}
  IN IF S = {} THEN 0 ELSE CHOOSE x \in S : \A y \in S : x <= y

\* The event a handler publishes once, after its loop
AfterEvent(kind) ==
  CASE kind = "contacts.update" -> "contact.update"
    [] kind = "chats.upsert"    -> "chat.update"
    [] kind = "presence.update" -> "presence.update"
    [] kind = "groups.update"   -> "group.update"
    [] OTHER                    -> "none"

\* message.key.fromMe ? MESSAGE_SENT : MESSAGE_RECEIVED
MessageEvent(fromMe) == IF fromMe THEN "message.sent" ELSE "message.received"

\* The handler of notification n (nt) from its item j on, up to its next
\* await of the Storage Adapter or to its end; pb: the events published so far.
HandlerRun(nt, n, j, pb) ==
  LET x == NextSave(nt.kind, nt.items, j)
      e == AfterEvent(nt.kind)
      p == Publication(n, 0, e)
  IN IF x # 0
       THEN [task |-> [pc |-> "saving", idx |-> x], pubs |-> pb]
       ELSE IF e = "none"
         THEN [task |-> [pc |-> "done", idx |-> 0], pubs |-> pb]
         ELSE [task |-> [pc |-> IF p.threw THEN "emitThrew" ELSE "done", idx |-> 0],
               pubs |-> Append(pb, p)]

\* socket.ev raises a notification: its handler runs up to its first await.
Raise(kind, items) ==
  LET i  == sessions[HandlerSession]
      nt == [kind |-> kind, items |-> items]
      n  == Len(notifs) + 1
      r  == HandlerRun(nt, n, 1, pubs)
  IN /\ i # NoInst
     /\ sess[i].socket \in Sock
     /\ sock[sess[i].socket].listeners
     /\ Len(notifs) < MaxNotifs
     /\ notifs' = Append(notifs, nt)
     /\ tasks' = Append(tasks, r.task)
     /\ pubs' = r.pubs
     /\ UNCHANGED <<subs, store>>
     /\ UNCHANGED <<lvars, bvars, xvars>>

\* The write a handler awaits resolves: the record is stored and the handler
\* goes on: for a message it publishes the message event.
SaveDone(n) ==
  LET nt == notifs[n]
      j  == tasks[n].idx
      p  == Publication(n, j, MessageEvent(nt.items[j]))
      pb == IF nt.kind = "messages.upsert" THEN Append(pubs, p) ELSE pubs
      r  == IF nt.kind = "messages.upsert" /\ p.threw
              THEN [task |-> [pc |-> "emitThrew", idx |-> j], pubs |-> pb]
              ELSE HandlerRun(nt, n, j + 1, pb)
  IN /\ tasks[n].pc = "saving"
     /\ store' = store \cup {<<n, j>>}
     /\ tasks' = [tasks EXCEPT ![n] = r.task]
     /\ pubs' = r.pubs
     /\ UNCHANGED <<subs, notifs>>
     /\ UNCHANGED <<lvars, bvars, xvars>>

\* The write a handler awaits rejects: nothing in the handler catches, the
\* async handler ends there with a rejection.
SaveFail(n) ==
  /\ tasks[n].pc = "saving"
  /\ tasks' = [tasks EXCEPT ![n].pc = "saveFailed"]
  /\ UNCHANGED <<subs, notifs, store, pubs>>
  /\ UNCHANGED <<lvars, bvars, xvars>>

\* A Session that is connected: created without override, paired, open.
InitEvents ==
  /\ sessions = [id \in SessionIds |-> 1]
  /\ sess = [i \in Inst |->
              IF i = 1
                THEN [NewSession(HandlerSession, 0) EXCEPT
                        !.socket = 1, !.status = "connected"]
                ELSE NoSessionRec]
  /\ sock = [k \in Sock |->
              IF k = 1
                THEN [owner |-> 1, phase |-> "open", listeners |-> TRUE,
                      creds |-> "valid"]
                ELSE FreeSock]
  /\ disk = [id \in SessionIds |-> "valid"]
  /\ last = Ev("open", 1, <<"connection.update", "connection.open">>)
  /\ calls = 1
  /\ NoTraffic
  /\ NoCalls

NextEvents ==
  \/ \E bus \in {"local", "global"}, throws \in BOOLEAN : Subscribe(bus, throws)
  \/ \E kind \in Kinds : \E items \in Items(kind) : Raise(kind, items)
  \/ \E n \in 1..Len(notifs) : SaveDone(n)
  \/ \E n \in 1..Len(notifs) : SaveFail(n)

SpecEvents == InitEvents /\ [][NextEvents]_vars

\* ============================================================= configuration
\* SessionRegistry.create(id, override) and the Session constructor.  Values
\* are written as the text of their JavaScript literal.
ConfigFields == {"maxRetries", "debug", "autoDisplayQR", "sessionsPath"}

\* qrCode: { format }
QRFormats == {"terminal", "raw", "base64", "all"}

\* The base configuration of the registry: the one the facade's constructor
\* has filled in.
BaseConfigs ==
  [ maxRetries    : {"3", "5"},
    debug         : {"true", "false"},
    autoDisplayQR : {"true", "false"},
    sessionsPath  : {"./sessions", "./data"} ]

\* The overrides create() is called with: a key is absent, or holds
\* undefined or a value of its type.
Overrides ==
  [ maxRetries    : {Absent, Undefined, "0", "1", "3"},
    debug         : {Absent, Undefined, "true", "false"},
    autoDisplayQR : {Absent, Undefined, "true", "false"},
    sessionsPath  : {Absent, Undefined, "", "./data"},
    qrCode        : {Absent} \cup QRFormats ]

\* JavaScript truthiness of the values above
Falsy(v) == v \in {Absent, Undefined, "0", "", "false"}

\* a || d
OrElse(v, d) == IF Falsy(v) THEN d ELSE v

\* { ...this.baseConfig, ...override }
Spread(base, override) ==
  [f \in DOMAIN base \cup DOMAIN override |->
     IF f \in DOMAIN override /\ override[f] # Absent THEN override[f]
     ELSE IF f \in DOMAIN base THEN base[f] ELSE Absent]

\* Session constructor: this.config = { ... }
SessionConfig(config) ==
  [ maxRetries    |-> OrElse(config.maxRetries, "5"),
    debug         |-> OrElse(config.debug, "false"),
    autoDisplayQR |-> IF config.autoDisplayQR # "false" THEN "true" ELSE "false",
    sessionsPath  |-> OrElse(config.sessionsPath, "./sessions") ]

\* create(id, override) makes the Session
CreateWithOverride ==
  /\ ~cfg.made
  /\ cfg' = [cfg EXCEPT !.config = SessionConfig(Spread(cfg.base, cfg.override)),
                        !.made = TRUE]
  /\ UNCHANGED <<jid, sqlite, prisma, ret, rty>>
  /\ UNCHANGED <<lvars, hvars, bvars>>

\* config.qrCode, when the Session's configuration has one
QrCodeOf(config) ==
  IF "qrCode" \in DOMAIN config THEN config.qrCode ELSE Undefined

\* qrConfig.format || (config.autoDisplayQR !== false ? 'terminal' : 'raw')
QrFormat(config) ==
  IF ~Falsy(QrCodeOf(config)) THEN QrCodeOf(config)
  ELSE IF config.autoDisplayQR # "false" THEN "terminal" ELSE "raw"

\* registerConnectionHandlers: update.qr, of the Session create() made;
\* generateQRBase64 gives the image, or '' when rendering fails
QrUpdate ==
  /\ cfg.made
  /\ cfg.event.type = "none"
  /\ \E image \in {"image", ""} :
       cfg' = [cfg EXCEPT
                 !.status = "qr",
                 !.event = [type |-> "qr.code", qr |-> "code",
                            qrBase64 |-> IF QrFormat(cfg.config) \in {"base64", "all"}
                                           THEN image ELSE Undefined,
                            buses |-> {"session", "global"}]]
  /\ UNCHANGED <<jid, sqlite, prisma, ret, rty>>
  /\ UNCHANGED <<lvars, hvars, bvars>>

InitConfig ==
  /\ NoSessions
  /\ NoTraffic
  /\ cfg \in [base : BaseConfigs, override : Overrides, config : {Absent},
               made : {FALSE}, status : {"disconnected"}, event : {NoQrEvent}]
  /\ jid = NoJid
  /\ sqlite = EmptyDb
  /\ prisma = EmptyDb
  /\ ret = NoRet
  /\ rty = NoRetry

NextConfig == CreateWithOverride \/ QrUpdate

SpecConfig == InitConfig /\ [][NextConfig]_vars

\* ========================================================== storage adapters
\* The two IStorageAdapter implementations, run side by side on the same
\* calls.  A table is the set of its rows; a result is a set of texts: the
\* contents returned, or one of the marks below.
MessageIds == {"k1", "k2"}
Jids == {"j1", "j2"}
Contents == {"m1", "m2"}
CredsTexts == {"c1", "c2"}

Void == {"ok"}
Rejected == {"error"}
Null == {"null"}
Bool(b) == IF b THEN {"true"} ELSE {"false"}

\* the rows an INSERT / create of row collides with on the columns of key
Conflicting(rows, row, key) == {r \in rows : \A f \in key : r[f] = row[f]}

\* INSERT OR IGNORE
InsertOrIgnore(rows, row, key) ==
  IF Conflicting(rows, row, key) = {} THEN rows \cup {row} ELSE rows

\* an insert that resolves no conflict
UpsertAppend(rows, row, key, upd) == rows \cup {row}

\* INSERT ... ON CONFLICT(key) DO UPDATE SET upd = excluded.upd, and
\* prisma's upsert({ where: key, update: upd, create: row })
Upsert(rows, row, key, upd) ==
  IF Conflicting(rows, row, key) = {}
  THEN rows \cup {row}
  ELSE { IF r \in Conflicting(rows, row, key)
         THEN [f \in DOMAIN r |-> IF f \in upd THEN row[f] ELSE r[f]]
         ELSE r : r \in rows }

SessionRow(s, c) == [sessionId |-> s, creds |-> c]
MessageRow(s, k, j, m) == [id |-> k, sessionId |-> s, jid |-> j, message |-> m]
\* contacts and chats: id = `${sessionId}:${jid}`
KeyedRow(s, j, d) == [id |-> <<s, j>>, sessionId |-> s, jid |-> j, data |-> d]

HasRow(db, s) == \E r \in db.sessions : r.sessionId = s

\* ---- SQLiteStorageAdapter
ensureSessionExists(db, s) ==
  [db EXCEPT !.sessions = InsertOrIgnore(@, SessionRow(s, "{}"), {"sessionId"})]

SqSaveSession(db, s, c) ==
  [db EXCEPT !.sessions = Upsert(@, SessionRow(s, c), {"sessionId"}, {"creds"})]

\* DELETE FROM sessions, with ON DELETE CASCADE on the three other tables
SqDeleteSession(db, s) ==
  [ sessions |-> {r \in db.sessions : r.sessionId # s},
    messages |-> {r \in db.messages : r.sessionId # s},
    contacts |-> {r \in db.contacts : r.sessionId # s},
    chats    |-> {r \in db.chats : r.sessionId # s} ]

SqSaveMessage(db, s, k, j, m) ==
  [ensureSessionExists(db, s) EXCEPT
     !.messages = Upsert(@, MessageRow(s, k, j, m), {"id"}, {"message"})]

SqSaveContact(db, s, j, d) ==
  [ensureSessionExists(db, s) EXCEPT
     !.contacts = Upsert(@, KeyedRow(s, j, d), {"sessionId", "jid"}, {"data"})]

SqSaveChat(db, s, j, d) ==
  [ensureSessionExists(db, s) EXCEPT
     !.chats = Upsert(@, KeyedRow(s, j, d), {"sessionId", "jid"}, {"data"})]

\* ---- PrismaStorageAdapter
PrSaveSession(db, s, c) ==
  [db EXCEPT !.sessions = Upsert(@, SessionRow(s, c), {"sessionId"}, {"creds"})]

\* prisma.session.delete rejects when no record matches
PrDeleteRejects(db, s) == ~HasRow(db, s)

PrDeleteSession(db, s) ==
  IF PrDeleteRejects(db, s) THEN db
  ELSE [db EXCEPT !.sessions = {r \in @ : r.sessionId # s}]

PrSaveMessage(db, s, k, j, m) ==
  [db EXCEPT !.messages = Upsert(@, MessageRow(s, k, j, m), {"id"}, {"message"})]

PrSaveContact(db, s, j, d) ==
  [db EXCEPT !.contacts = Upsert(@, KeyedRow(s, j, d), {"id"}, {"data"})]

PrSaveChat(db, s, j, d) ==
  [db EXCEPT !.chats = Upsert(@, KeyedRow(s, j, d), {"id"}, {"data"})]

\* ---- the reads, the same query in both adapters
loadSession(db, s) ==
  IF HasRow(db, s) THEN {r.creds : r \in {q \in db.sessions : q.sessionId = s}}
  ELSE Null

hasSession(db, s) == Bool(HasRow(db, s))

getMessages(db, s, j) ==
  {r.message : r \in {q \in db.messages : q.sessionId = s /\ q.jid = j}}

getContacts(db, s) == {r.data : r \in {q \in db.contacts : q.sessionId = s}}

getChats(db, s) == {r.data : r \in {q \in db.chats : q.sessionId = s}}

\* ---- one call, made on both adapters
StorageCall(op, s, k, j, d, sq, pr, rs, rp) ==
  /\ ret.n < MaxStorageCalls
  /\ sqlite' = sq
  /\ prisma' = pr
  /\ ret' = [op |-> op, sessionId |-> s, id |-> k, jid |-> j, data |-> d,
             hit |-> \E r \in sqlite.messages : r.id = k /\ r.sessionId = s,
             sqlite |-> rs, prisma |-> rp, n |-> ret.n + 1]
  /\ UNCHANGED <<cfg, jid, rty>>
  /\ UNCHANGED <<lvars, hvars, bvars>>

SaveSession(s, c) ==
  StorageCall("saveSession", s, NoId, NoId, c,
              SqSaveSession(sqlite, s, c), PrSaveSession(prisma, s, c), Void, Void)

LoadSession(s) ==
  StorageCall("loadSession", s, NoId, NoId, NoId, sqlite, prisma,
              loadSession(sqlite, s), loadSession(prisma, s))

DeleteSession(s) ==
  StorageCall("deleteSession", s, NoId, NoId, NoId,
              SqDeleteSession(sqlite, s), PrDeleteSession(prisma, s),
              Void, IF PrDeleteRejects(prisma, s) THEN Rejected ELSE Void)

HasSession(s) ==
  StorageCall("hasSession", s, NoId, NoId, NoId, sqlite, prisma,
              hasSession(sqlite, s), hasSession(prisma, s))

SaveMessage(s, k, j, m) ==
  StorageCall("saveMessage", s, k, j, m,
              SqSaveMessage(sqlite, s, k, j, m), PrSaveMessage(prisma, s, k, j, m),
              Void, Void)

GetMessages(s, j) ==
  StorageCall("getMessages", s, NoId, j, NoId, sqlite, prisma,
              getMessages(sqlite, s, j), getMessages(prisma, s, j))

SaveContact(s, j, d) ==
  StorageCall("saveContact", s, NoId, j, d,
              SqSaveContact(sqlite, s, j, d), PrSaveContact(prisma, s, j, d),
              Void, Void)

GetContacts(s) ==
  StorageCall("getContacts", s, NoId, NoId, NoId, sqlite, prisma,
              getContacts(sqlite, s), getContacts(prisma, s))

SaveChat(s, j, d) ==
  StorageCall("saveChat", s, NoId, j, d,
              SqSaveChat(sqlite, s, j, d), PrSaveChat(prisma, s, j, d),
              Void, Void)

GetChats(s) ==
  StorageCall("getChats", s, NoId, NoId, NoId, sqlite, prisma,
              getChats(sqlite, s), getChats(prisma, s))

InitStorage ==
  /\ NoSessions
  /\ NoTraffic
  /\ NoCalls

NextStorage ==
  \/ \E s \in TwoSessionIds, c \in CredsTexts : SaveSession(s, c)
  \/ \E s \in TwoSessionIds : LoadSession(s)
  \/ \E s \in TwoSessionIds : DeleteSession(s)
  \/ \E s \in TwoSessionIds : HasSession(s)
  \/ \E s \in TwoSessionIds, k \in MessageIds, j \in Jids, m \in Contents :
       SaveMessage(s, k, j, m)
  \/ \E s \in TwoSessionIds, j \in Jids : GetMessages(s, j)
  \/ \E s \in TwoSessionIds, j \in Jids, d \in Contents : SaveContact(s, j, d)
  \/ \E s \in TwoSessionIds : GetContacts(s)
  \/ \E s \in TwoSessionIds, j \in Jids, d \in Contents : SaveChat(s, j, d)
  \/ \E s \in TwoSessionIds : GetChats(s)

SpecStorage == InitStorage /\ [][NextStorage]_vars

\* ================================================================= formatJid
\* A string is the sequence of its characters.
WhiteSpace == {" "}
Digits == {"0", "1", "2", "3", "4", "5", "6", "7", "8", "9"}

SuffixUser == <<"@", "s", ".", "w", "h", "a", "t", "s", "a", "p", "p", ".", "n", "e", "t">>
SuffixGroup == <<"@", "g", ".", "u", "s">>
SuffixLid == <<"@", "l", "i", "d">>
SuffixBroadcast == <<"@", "b", "r", "o", "a", "d", "c", "a", "s", "t">>
Suffixes == {SuffixUser, SuffixGroup, SuffixLid, SuffixBroadcast}

\* The pieces the inputs are put together from: separators, a letter, the
\* digits the code looks at, digit runs that reach its length thresholds, the
\* group prefix and the four suffixes.
Pieces ==
  { <<" ">>, <<"+">>, <<"-">>, <<"x">>, <<"0">>, <<"8">>, <<"1">>,
    <<"1", "2", "3", "4", "5", "6", "7", "8">>,
    <<"2", "3", "4", "5", "6", "7", "8", "9", "0", "1", "2", "3">>,
    <<"1", "2", "0", "3", "6", "3">> } \cup Suffixes

RECURSIVE Concat(_)
Concat(ps) == IF ps = <<>> THEN <<>> ELSE Head(ps) \o Concat(Tail(ps))

\* the phone numbers of the function's documentation
PhoneExamples ==
  { <<"0", "8", "1", "2", "3", "4", "5", "6", "7", "8", "9">>,
    <<"6", "2", "8", "1", "2", "3", "4", "5", "6", "7", "8", "9">>,
    <<"8", "1", "2", "3", "4", "5", "6", "7", "8", "9">>,
    <<"+", "6", "2", " ", "8", "1", "2", "-", "3", "4", "5", "6", "-", "7", "8", "9">> }

Inputs ==
  {Concat(ps) : ps \in UNION {[1..n -> Pieces] : n \in 0..MaxPieces}}
    \cup PhoneExamples

\* the optional boolean parameters isGroup and isLid
Hints == {Absent, "true", "false"}

\* String.prototype.trim
RECURSIVE trimStart(_)
trimStart(s) ==
  IF s # <<>> /\ s[1] \in WhiteSpace THEN trimStart(Tail(s)) ELSE s

RECURSIVE trimEnd(_)
trimEnd(s) ==
  IF s # <<>> /\ s[Len(s)] \in WhiteSpace
  THEN trimEnd(SubSeq(s, 1, Len(s) - 1))
  ELSE s

trim(s) == trimEnd(trimStart(s))

endsWith(s, suffix) ==
  /\ Len(s) >= Len(suffix)
  /\ SubSeq(s, Len(s) - Len(suffix) + 1, Len(s)) = suffix

startsWith(s, prefix) ==
  /\ Len(s) >= Len(prefix)
  /\ SubSeq(s, 1, Len(prefix)) = prefix

IsDigit(c) == c \in Digits

\* s.replace(/\D/g, '')
removeNonDigits(s) == SelectSeq(s, IsDigit)

AllDigits(s) == \A x \in 1..Len(s) : IsDigit(s[x])

\* /^\d+-\d+$/.test(s)
DashedGroup(s) ==
  \E x \in 2..(Len(s) - 1) :
    /\ s[x] = "-"
    /\ AllDigits(SubSeq(s, 1, x - 1))
    /\ AllDigits(SubSeq(s, x + 1, Len(s)))

\* /^120363\d{12,}$/.test(s)
LongGroup(s) ==
  /\ startsWith(s, <<"1", "2", "0", "3", "6", "3">>)
  /\ Len(s) >= 18
  /\ AllDigits(s)

\* a suffix check that never matches
HasSuffixNever(s) == FALSE

\* PRIORITY 1: the four endsWith tests
HasSuffix(s) == \E suffix \in Suffixes : endsWith(s, suffix)

\* no prefix rewritten
phoneDigitsAsIs(d) == d

\* PRIORITY 4: the Indonesian prefixes
phoneDigits(d) ==
  IF startsWith(d, <<"0">>) THEN <<"6", "2">> \o Tail(d)
  ELSE IF startsWith(d, <<"8">>) /\ Len(d) >= 9 /\ Len(d) <= 13
       THEN <<"6", "2">> \o d
       ELSE d

\* formatJid(input, isGroup, isLid) for a non-empty input
formatJid(input, isGroup, isLid) ==
  LET cleaned == trim(input)
  IN  IF HasSuffix(cleaned) THEN cleaned
      ELSE IF isLid = "true" THEN removeNonDigits(cleaned) \o SuffixLid
      ELSE IF isGroup = "true" THEN cleaned \o SuffixGroup
      ELSE IF DashedGroup(cleaned) THEN cleaned \o SuffixGroup
      ELSE IF LongGroup(cleaned) THEN cleaned \o SuffixGroup
      ELSE phoneDigits(removeNonDigits(cleaned)) \o SuffixUser

JidCall(next) ==
  /\ jid' = next
  /\ UNCHANGED <<cfg, sqlite, prisma, ret, rty>>
  /\ UNCHANGED <<lvars, hvars, bvars>>

\* formatJid('') throws
FormatThrows ==
  /\ jid.pc = "called"
  /\ jid.input = <<>>
  /\ JidCall([jid EXCEPT !.pc = "threw"])

\* out = formatJid(input, isGroup, isLid)
Format ==
  /\ jid.pc = "called"
  /\ jid.input # <<>>
  /\ JidCall([jid EXCEPT !.out = formatJid(jid.input, jid.isGroup, jid.isLid),
                         !.pc = "formatted"])

\* again = formatJid(out, ...), with any hints
FormatAgain ==
  /\ jid.pc = "formatted"
  /\ \E g \in Hints, l \in Hints :
       JidCall([jid EXCEPT !.again = formatJid(jid.out, g, l), !.pc = "again"])

InitJid ==
  /\ NoSessions
  /\ NoTraffic
  /\ cfg = NoCfg
  /\ sqlite = EmptyDb
  /\ prisma = EmptyDb
  /\ ret = NoRet
  /\ rty = NoRetry
  /\ jid \in [input : Inputs, isGroup : Hints, isLid : Hints,
              out : {<<>>}, again : {<<>>}, pc : {"called"}]

NextJid == FormatThrows \/ Format \/ FormatAgain

SpecJid == InitJid /\ [][NextJid]_vars

\* ========================================================== retryWithBackoff
\* retryWithBackoff(fn, maxRetries, baseDelay): one call, cut at its awaits.
\* fn is the caller's: each call of it resolves, or rejects with any value.
BaseDelays == {0, 1000}
Rejections == {"e1", "e2", Undefined}
MaxRetriesExceeded == "Error: Max retries exceeded"

\* a test that lets every failed attempt sleep
SleepsAfterAlways(r) == TRUE

\* if (i < maxRetries - 1)
SleepsAfter(r) == r.i < r.maxRetries - 1

\* the for test and what follows it without an await: the call of fn, or
\* throw lastError || new Error('Max retries exceeded')
LoopHead(r) ==
  IF r.i < r.maxRetries
  THEN [r EXCEPT !.pc = "calling", !.calls = r.calls + 1]
  ELSE [r EXCEPT !.pc = "threw",
                 !.result = OrElse(r.lastError, MaxRetriesExceeded)]

RetryStep(next) ==
  /\ rty' = next
  /\ UNCHANGED <<cfg, jid, sqlite, prisma, ret>>
  /\ UNCHANGED <<lvars, hvars, bvars>>

\* the call: let lastError; i = 0
RetryBegin ==
  /\ rty.pc = "called"
  /\ RetryStep(LoopHead(rty))

\* return await fn()
FnResolves ==
  /\ rty.pc = "calling"
  /\ RetryStep([rty EXCEPT !.pc = "returned", !.result = "value"])

\* catch (error): lastError = error, then the sleep or the next turn
FnRejects(e) ==
  /\ rty.pc = "calling"
  /\ LET r == [rty EXCEPT !.lastError = e, !.errs = Append(rty.errs, e)]
     IN IF SleepsAfter(r)
        THEN RetryStep([r EXCEPT !.pc = "sleeping",
                                 !.slept = Append(r.slept, r.baseDelay * Pow2(r.i))])
        ELSE RetryStep(LoopHead([r EXCEPT !.i = r.i + 1]))

\* await sleep(delay) is over: i++
SleepOver ==
  /\ rty.pc = "sleeping"
  /\ RetryStep(LoopHead([rty EXCEPT !.pc = "loop", !.i = rty.i + 1]))

InitRetry ==
  /\ NoSessions
  /\ NoTraffic
  /\ cfg = NoCfg
  /\ jid = NoJid
  /\ sqlite = EmptyDb
  /\ prisma = EmptyDb
  /\ ret = NoRet
  /\ rty \in [maxRetries : 0..MaxTries, baseDelay : BaseDelays, i : {0},
              pc : {"called"}, calls : {0}, lastError : {Undefined},
              result : {Absent}, errs : {<<>>}, slept : {<<>>}]

NextRetry ==
  \/ RetryBegin
  \/ FnResolves
  \/ \E e \in Rejections : FnRejects(e)
  \/ SleepOver

\* every call of fn settles and every timer fires
SpecRetry == InitRetry /\ [][NextRetry]_vars /\ WF_vars(NextRetry)

\* ==================================================================== facade
\* The operations of the facade (send, group, contact, chat, profile and
\* presence helpers) begin with getSessionOrThrow and getSocketOrThrow.

\* getSessionOrThrow: registry.get(sessionId) is undefined
SessionNotFound(id) == sessions[id] = NoInst

\* A socket check that never fails
SocketMissingNever(i) == FALSE

\* getSocketOrThrow: session.getSocket() is null
SocketMissing(i) == sess[i].socket = NullSocket

\* How an operation of the facade on session id goes: it fails with
\* 'Session <id> not found' or '... is not connected', or it calls the socket.
FacadeOutcome(id) ==
  IF SessionNotFound(id) THEN "facade.notFound"
  ELSE IF SocketMissing(sessions[id]) THEN "facade.notConnected"
  ELSE "facade.forward"

\* sendText and the other helpers
Facade(id) ==
  Commit(sessions, sess, sock, disk, Ev(FacadeOutcome(id), sessions[id], <<>>))

NextFacade ==
  \/ Next
  \/ \E id \in DOMAIN sessions : Facade(id)

SpecFacade == Init /\ [][NextFacade]_vars

\* ============================================================ bulk operations
\* SessionRegistry.shutdownAll, startByIds and restartAll.  A Session is taken
\* by what its start() and stop() do to the socket it holds and by whether
\* they resolve or reject; one call of the registry runs at a time.

\* The position of the entry of id in the Map (0: none)
FindEntry(reg, id) ==
  LET S == {x \in 1..Len(reg) : reg[x].id = id}
  IN IF S = {} THEN 0 ELSE CHOOSE x \in S : TRUE

\* SessionRegistry.listIds, had it dropped the first key
listIdsTail(reg) == [x \in 1..(Len(reg) - 1) |-> reg[x + 1].id]

\* SessionRegistry.listIds: Array.from(this.sessions.keys())
listIds(reg) == [x \in 1..Len(reg) |-> reg[x].id]

\* this.sessions.delete(id)
MapDelete(reg, id) == SelectSeq(reg, LAMBDA e : e.id # id)

\* The Sessions registered
Registered(reg) == {reg[x].obj : x \in 1..Len(reg)}

FreeObjs == {o \in 1..MaxObjs : ctrl[o].phase = "none"}

\* Session.start on a new Session: it resolves once connect() has made the
\* socket, or rejects with status 'error' and no socket.
StartOutcomes == {"ok", "connectFails"}

SessionStarted(id, out) ==
  IF out = "ok" THEN [id |-> id, socket |-> TRUE, phase |-> "started"]
                ELSE [id |-> id, socket |-> FALSE, phase |-> "startFailed"]

\* Session.stop: it resolves; or await this.socket.logout() rejects, and the
\* socket and the status stay; or a subscriber of session.stop throws in
\* emitBoth, after the socket was dropped and the status set.
StopOutcomes(c) ==
  IF c.socket THEN {"ok", "logoutRejects", "emitThrows"} ELSE {"ok", "emitThrows"}

SessionStopped(c, out) ==
  IF out = "logoutRejects" THEN c ELSE [c EXCEPT !.socket = FALSE, !.phase = "stopped"]

\* SessionRegistry.create(id): the registry, the Sessions and whether it resolved
RegistryCreate(reg, ct, id, out) ==
  LET x == FindEntry(reg, id)
      o == CHOOSE q \in 1..MaxObjs : ct[q].phase = "none"
  IN IF x # 0 /\ ct[reg[x].obj].socket
       THEN [registry |-> reg, ctrl |-> ct, ok |-> TRUE]
       ELSE [registry |-> Append(MapDelete(reg, id), [id |-> id, obj |-> o]),
             ctrl |-> [ct EXCEPT ![o] = SessionStarted(id, out)],
             ok |-> out = "ok"]

\* A bulk operation ends
JobDone(j, r) == [j EXCEPT !.pc = "idle", !.result = r]

\* The slice of a bulk operation from the end of an await on: the loop of
\* shutdownAll ends with this.sessions.clear(), restartAll goes on with
\* startByIds(ids), the loop of startByIds ends with the return.
JobGoesOn(j, reg) ==
  LET swept == j.pc = "shutdown" /\ j.pos > Len(reg)
      j1 == IF ~swept THEN j
            ELSE IF j.op = "restartAll" THEN [j EXCEPT !.pc = "start", !.pos = 1]
            ELSE JobDone(j, "resolved")
      r1 == IF swept THEN <<>> ELSE reg
      j2 == IF j1.pc = "start" /\ j1.pos > Len(j1.ids) THEN JobDone(j1, "resolved") ELSE j1
  IN [job |-> j2, registry |-> r1]

\* A call of a bulk operation, up to its first await
JobCall(op, pc, ids) ==
  LET j == [NoJob EXCEPT !.op = op, !.pc = pc, !.pos = 1, !.ids = ids,
                         !.n = job.n + 1, !.old = Registered(registry)]
      r == JobGoesOn(j, registry)
  IN /\ job.pc = "idle"
     /\ job.n < MaxJobs
     /\ job' = r.job
     /\ registry' = r.registry
     /\ UNCHANGED ctrl
     /\ UNCHANGED <<lvars, hvars, xvars>>

\* SessionRegistry.shutdownAll
ShutdownAll == JobCall("shutdownAll", "shutdown", <<>>)

\* SessionRegistry.startByIds(ids)
StartByIds(ids) == JobCall("startByIds", "start", ids)

\* SessionRegistry.restartAll: const ids = this.listIds(); await this.shutdownAll()
RestartAll == JobCall("restartAll", "shutdown", listIds(registry))

\* for (const [id, s] of this.sessions) await s.stop(): one stop() and what
\* follows its end.
ShutdownStep(out) ==
  LET o == registry[job.pos].obj
      j == [job EXCEPT !.stopped = @ \cup {o}]
      r == JobGoesOn([j EXCEPT !.pos = @ + 1], registry)
  IN /\ job.pc = "shutdown"
     /\ out \in StopOutcomes(ctrl[o])
     /\ ctrl' = [ctrl EXCEPT ![o] = SessionStopped(@, out)]
     /\ IF out = "ok"
          THEN job' = r.job /\ registry' = r.registry
          ELSE job' = JobDone(j, "rejected") /\ registry' = registry
     /\ UNCHANGED <<lvars, hvars, xvars>>

\* for (const id of sessionIds) await this.create(id, override): one create()
\* and what follows its end.
StartStep(out) ==
  LET id == job.ids[job.pos]
      c  == RegistryCreate(registry, ctrl, id, out)
      j  == [job EXCEPT !.created = @ \cup {job.pos}]
      r  == JobGoesOn([j EXCEPT !.pos = @ + 1], c.registry)
  IN /\ job.pc = "start"
     /\ FreeObjs # {}
     /\ ctrl' = c.ctrl
     /\ IF c.ok
          THEN job' = r.job /\ registry' = r.registry
          ELSE job' = JobDone(j, "rejected") /\ registry' = c.registry
     /\ UNCHANGED <<lvars, hvars, xvars>>

\* SessionRegistry.create called on its own
CreateOne(id, out) ==
  LET c == RegistryCreate(registry, ctrl, id, out)
  IN /\ job.pc = "idle"
     /\ FreeObjs # {}
     /\ registry' = c.registry
     /\ ctrl' = c.ctrl
     /\ UNCHANGED job
     /\ UNCHANGED <<lvars, hvars, xvars>>

\* The id lists startByIds is called with
IdLists == UNION {[1..m -> TwoSessionIds] : m \in 0..2}

NextBulk ==
  \/ \E id \in TwoSessionIds, out \in StartOutcomes : CreateOne(id, out)
  \/ ShutdownAll
  \/ \E ids \in IdLists : StartByIds(ids)
  \/ RestartAll
  \/ \E out \in {"ok", "logoutRejects", "emitThrows"} : ShutdownStep(out)
  \/ \E out \in StartOutcomes : StartStep(out)

SpecBulk == Init /\ [][NextBulk]_vars

\* ============================================================== properties

\* C1: at every instant at most one protocol socket is live for a session id,
\* under every interleaving of create, start, stop, destroy, closes and timers.
C1_AtMostOneLiveSocket ==
  \A id \in DOMAIN sessions : Cardinality(LiveSocksOf(id)) <= 1

\* C2: once stop() has returned and until start() is called, the Session opens
\* no protocol connection: no pending delay and no connect in progress gives
\* it a socket it did not have.
C2_NoConnectionAfterStop ==
  [][\A i \in Inst :
       (Alive(i) /\ ~sess[i].shouldReconnect /\ sess[i].stopPc = "idle")
         => {k \in Sock : sock'[k].phase # "free" /\ sock'[k].owner = i}
              \subseteq {k \in Sock : sock[k].phase # "free" /\ sock[k].owner = i}]_vars

\* C3: create(id) for an id whose registered Session holds a socket returns
\* that same Session and starts nothing: no Session is made, no connect begins,
\* no socket is opened.
C3_CreateReturnsActive ==
  [][\A id \in DOMAIN sessions :
       (/\ sessions[id] # NoInst
        /\ sess[sessions[id]].socket # NullSocket
        /\ last'.op \in {"create.existing", "create.new"}
        /\ sess'[last'.inst].sessionId = id)
         => /\ last'.op = "create.existing"
            /\ last'.inst = sessions[id]
            /\ sessions' = sessions
            /\ sess' = sess
            /\ sock' = sock
            /\ disk' = disk]_vars

C3_Witness ==
  /\ last.op = "create.existing"
  /\ sessions["s1"] = last.inst
  /\ sess[last.inst].socket \in Sock
  /\ sess[last.inst].status # "connected"

\* C4 (as stated): the maxRetries-th consecutive transient close that
\* handleReconnect takes up ends the retries: status error, session.error
\* published, no reconnect pending.
C4_ErrorAtMaxRetries ==
  [][\A i \in Inst :
       (sess'[i].closes = sess[i].closes + 1 /\ sess'[i].closes = sess[i].maxRetries)
         => /\ sess'[i].status = "error"
            /\ Published(last', "session.error")
            /\ ~sess'[i].rcPending]_vars

\* C4 (amended): each of the first maxRetries consecutive transient closes
\* schedules a reconnect; the close after them, the (maxRetries+1)-th, sets
\* status error, publishes session.error and leaves no reconnect pending.  A
\* start() accepted after that sets the retry counter to 0 and begins a
\* connection attempt.
C4_ErrorAfterMaxRetries ==
  [][\A i \in Inst :
       /\ (sess'[i].closes = sess[i].closes + 1)
            => IF sess'[i].closes > sess[i].maxRetries
                 THEN /\ sess'[i].status = "error"
                      /\ Published(last', "session.error")
                      /\ ~sess'[i].rcPending
                      /\ ~sess'[i].reconnecting
                 ELSE /\ sess'[i].status = "connecting"
                      /\ ~Published(last', "session.error")
                      /\ sess'[i].rcPending
                      /\ sess'[i].retryCount = sess'[i].closes
       /\ (sess[i].closes > sess[i].maxRetries /\ last'.op = "start" /\ last'.inst = i)
            => /\ sess'[i].retryCount = 0
               /\ sess'[i].shouldReconnect
               /\ sess'[i].isConnecting
               /\ sess'[i].connPc = "auth"
               /\ sess'[i].status = "connecting"]_vars

C4_Witness ==
  \E i \in Inst :
    /\ last.op = "close"
    /\ last.inst = i
    /\ sess[i].closes = sess[i].maxRetries + 1
    /\ sess[i].retryCount = sess[i].maxRetries
    /\ sess[i].status = "error"

\* C5: a logged-out close leaves the Session disconnected with retry counter 0
\* and no socket, and wipes the credential directory; the next connection
\* attempt of the Session then loads no credentials.
C5_LoggedOutResets ==
  [][\A i \in Inst :
       /\ (last'.op = "close.loggedOut" /\ last'.inst = i)
            => /\ sess'[i].status = "disconnected"
               /\ sess'[i].retryCount = 0
               /\ sess'[i].socket = NullSocket
               /\ disk'[sess[i].sessionId] = "none"
       /\ (sess[i].connAfterLO /\ sess[i].connPc = "auth" /\ sess'[i].connPc = "socket")
            => sess'[i].connCreds = "none"]_vars

\* C6: stop(), and destroy which calls it, disconnects without revoking or
\* deleting the credentials of the session: no slice of stop() changes the
\* credential directory.
C6_StopKeepsCredentials ==
  [][last'.op \in {"stop", "stop.logout"} => disk' = disk]_vars

C8_BackoffDelay ==
  [][\A i \in Inst :
       (sess'[i].rcPending /\ ~sess[i].rcPending)
         => /\ sess'[i].retryCount = sess[i].retryCount + 1
            /\ sess'[i].backoffMs =
                 IF 2000 * 2^(sess'[i].retryCount - 1) < 30000
                   THEN 2000 * 2^(sess'[i].retryCount - 1) ELSE 30000
            /\ sess'[i].backoffMs <= 30000
            /\ sess'[i].backoffMs >= sess[i].backoffMs]_vars

C8_Witness ==
  \E i \in Inst :
    /\ sess[i].rcPending
    /\ sess[i].retryCount = 5
    /\ sess[i].backoffMs = 30000

\* C9: a logged-out close publishes session.error whether or not reconnect is
\* enabled, and the connection attempt after the fixed delay begins only if
\* the reconnect flag is still set.
C9_LoggedOutPublishesError ==
  [][/\ last'.op = "close.loggedOut" => Published(last', "session.error")
     /\ \A i \in Inst :
          (/\ sess'[i].loTimers < sess[i].loTimers
           /\ sess[i].connPc = "idle"
           /\ sess'[i].connPc = "auth")
            => sess[i].shouldReconnect]_vars

\* C10: a stop() on a Session that is already stopped changes none of its
\* state and publishes no further session.stop event.
C10_StopIdempotent ==
  [][\A i \in Inst :
       (/\ last'.op = "stop" /\ last'.inst = i /\ calls' = calls + 1
        /\ sessions' = sessions
        /\ ~sess[i].shouldReconnect
        /\ sess[i].status = "disconnected"
        /\ sess[i].socket = NullSocket
        /\ sess[i].retryCount = 0
        /\ sess[i].connPc = "idle" /\ ~sess[i].rcPending /\ sess[i].loTimers = 0)
         => /\ ~Published(last', "session.stop")
            /\ sess'[i] = sess[i]]_vars

\* C11: start() on a Session that has a connect in progress or holds a socket
\* fails, and only then, and the failing call changes nothing: retry counter,
\* reconnect flag, status and socket are as before it.
C11_StartRefusedChangesNothing ==
  [][\A i \in Inst :
       (last'.op \in {"start", "start.throw"} /\ last'.inst = i)
         => /\ (last'.op = "start.throw")
                 <=> (sess[i].connPc # "idle" \/ sess[i].socket # NullSocket)
            /\ (last'.op = "start.throw")
                 => /\ sess' = sess
                    /\ sock' = sock
                    /\ disk' = disk
                    /\ sessions' = sessions]_vars

C11_Witness ==
  /\ last.op = "start.throw"
  /\ sess[last.inst].connPc # "idle"
  /\ sess[last.inst].socket = NullSocket

\* C12: the status of a Session becomes 'error' only in the close that finds
\* the retry budget exhausted, and a Session in 'error' keeps that status and
\* begins no connection attempt until start() is called on it (or the Session
\* is stopped or replaced by the registry).
C12_ErrorOnlyAfterExhaustion ==
  [][\A i \in Inst :
       /\ (sess'[i].status = "error" /\ sess[i].status # "error")
            => /\ last'.op = "close"
               /\ sess[i].retryCount = sess[i].maxRetries
       /\ (/\ sess[i].status = "error"
           /\ sess'[i].sessionId = sess[i].sessionId
           /\ ~(/\ last'.inst = i
                /\ last'.op \in {"start", "create.new", "stop", "destroy", "logout",
                                 "stop.logout", "logout.logout"}))
            => /\ sess'[i].status = "error"
               /\ ~(sess[i].connPc = "idle" /\ sess'[i].connPc # "idle")]_vars

\* C13: whenever a close notification or a timer of a Session (and not a call
\* of start()) puts it into status 'error', be it by retry exhaustion or by a
\* connect that fails during a reconnect, session.error is published.
C13_ErrorIsPublished ==
  [][\A i \in Inst :
       (sess'[i].status = "error" /\ sess[i].status # "error" /\ sess[i].connBy # "start")
         => Published(last', "session.error")]_vars

\* C19: a step of the program (an operation, a socket notification or a timer
\* of one session id) changes the state of at most one session id, and when
\* it is a step of a Session of id A, then for every other id B the registry
\* entry, the Sessions (status, retry counter, reconnect flag, socket and all
\* other fields), the sockets and the stored credentials of B are unchanged.
C19_SessionsIsolated ==
  [][LET SessOf(ss, id) ==
           [i \in Inst |-> IF ss[i].sessionId = id THEN ss[i] ELSE NoSessionRec]
         SockOf(sk, ss, id) ==
           [k \in Sock |->
              IF sk[k].phase # "free" /\ ss[sk[k].owner].sessionId = id
                THEN sk[k] ELSE FreeSock]
         Same(id) ==
           /\ sessions'[id] = sessions[id]
           /\ SessOf(sess', id) = SessOf(sess, id)
           /\ SockOf(sock', sess', id) = SockOf(sock, sess, id)
           /\ disk'[id] = disk[id]
         Subject ==
           IF sess'[last'.inst].sessionId # NoId
             THEN sess'[last'.inst].sessionId ELSE sess[last'.inst].sessionId
     IN /\ \A a, b \in DOMAIN sessions : a # b => (Same(a) \/ Same(b))
        /\ \A b \in DOMAIN sessions :
             (last'.inst # NoInst /\ Subject # b) => Same(b)]_vars

C19_Witness ==
  \E a, b \in DOMAIN sessions :
    /\ a # b
    /\ sessions[a] # NoInst
    /\ sessions[b] # NoInst
    /\ sess[sessions[b]].socket \in Sock
    /\ disk[b] = "valid"
    /\ last.op = "close.loggedOut"
    /\ last.inst = sessions[a]

C14_DeliveredOnceOnBothBuses ==
  [][\A q \in (Len(pubs) + 1)..Len(pubs') :
       /\ \A bus \in {"local", "global"} :
            \A h \in 1..Len(subs[bus]) :
              Cardinality({d \in 1..Len(pubs'[q].deliv) :
                             pubs'[q].deliv[d] = [bus |-> bus, h |-> h]}) = 1
       /\ pubs'[q].payload.sessionId = HandlerSession
       /\ pubs'[q].payload.timestamp # Absent]_vars

\* C15: when a subscriber throws during a publish, the other subscribers of
\* its bus still run, the event is delivered on the other bus as well, and
\* the exception reaches neither emitBoth's caller nor ends the handler.
C15_ThrowingSubscriberIsolated ==
  [][\A q \in (Len(pubs) + 1)..Len(pubs') :
       (\E bus \in {"local", "global"} :
          \E h \in 1..Len(subs[bus]) : subs[bus][h].throws)
         => /\ ~pubs'[q].threw
            /\ tasks'[pubs'[q].n].pc # "emitThrew"
            /\ \A bus \in {"local", "global"} :
                 \A h \in 1..Len(subs[bus]) :
                   \E d \in 1..Len(pubs'[q].deliv) :
                     pubs'[q].deliv[d] = [bus |-> bus, h |-> h]]_vars

\* C16: when message.received or message.sent is published for a message,
\* the write of that message is complete; when contact.update or chat.update
\* is published for a notification, the writes of all its contacts that have
\* an id, resp. of all its chats, are complete.
C16_WriteBeforePublish ==
  \A q \in 1..Len(pubs) :
    LET n == pubs[q].n IN
    /\ pubs[q].type \in {"message.received", "message.sent"}
         => <<n, pubs[q].idx>> \in store
    /\ pubs[q].type = "contact.update"
         => \A x \in 1..Len(notifs[n].items) :
              notifs[n].items[x] => <<n, x>> \in store
    /\ pubs[q].type = "chat.update"
         => \A x \in 1..Len(notifs[n].items) : <<n, x>> \in store

C16_Witness ==
  \E q, r \in 1..Len(pubs) :
    /\ pubs[q].type = "message.received"
    /\ pubs[q].idx = 2
    /\ pubs[r].type = "contact.update"
    /\ notifs[pubs[r].n].items = <<FALSE, TRUE>>

\* C17: when the write a handler awaits fails, the handler still publishes
\* the event of the notification.
C17_PublishedDespiteWriteFailure ==
  [][\A n \in 1..Len(tasks) :
       (tasks[n].pc = "saving" /\ tasks'[n].pc = "saveFailed")
         => /\ Len(pubs') > Len(pubs)
            /\ pubs'[Len(pubs')].n = n]_vars

\* C18: the events are published in the order in which the socket raised
\* their notifications.
C18_PublishedInNotificationOrder ==
  \A q, r \in 1..Len(pubs) : q < r => pubs[q].n <= pubs[r].n

\* C25: when a close finds the retry budget of a Session exhausted and puts
\* it into status 'error', the id of the Session is no longer registered.
C25_ErrorRemovesFromRegistry ==
  [][\A i \in Inst :
       (/\ last'.op = "close"
        /\ last'.inst = i
        /\ sess[i].status # "error"
        /\ sess'[i].status = "error")
         => sessions'[sess[i].sessionId] = NoInst]_vars

\* C21: when shutdownAll ends, it has called stop() on every Session that was
\* registered and the collection is empty, also when a stop() has failed.
C21_ShutdownAllSweepsAll ==
  [][(job' # job /\ job'.op = "shutdownAll" /\ job'.pc = "idle")
       => /\ registry' = <<>>
          /\ job'.old \subseteq job'.stopped]_vars

\* C22: startByIds calls create() for the ids in the order of the list, and
\* when it ends it has called create() for every id of the list, also when a
\* create() has failed.
C22_StartByIdsTriesAll ==
  [][/\ (job'.op = "startByIds" /\ job'.pc = "start")
          => job'.created = 1..(job'.pos - 1)
     /\ (job' # job /\ job'.op = "startByIds" /\ job'.pc = "idle")
          => job'.created = 1..Len(job'.ids)]_vars

C26_FacadeGuards ==
  [][(last'.op \in {"facade.notFound", "facade.notConnected", "facade.forward"})
       => /\ (last'.op = "facade.notFound")
               <=> (last'.inst = NoInst)
          /\ (last'.op = "facade.notFound")
               => \E id \in DOMAIN sessions : sessions[id] = NoInst
          /\ (last'.op = "facade.notConnected")
               <=> (last'.inst # NoInst /\ sess[last'.inst].socket = NullSocket)
          /\ (last'.inst # NoInst)
               => \E id \in DOMAIN sessions : sessions[id] = last'.inst
          /\ (last'.op # "facade.forward")
               => /\ sessions' = sessions
                  /\ sess' = sess
                  /\ sock' = sock
                  /\ disk' = disk]_vars

C26_Witness ==
  /\ last.op = "facade.notConnected"
  /\ sessions["s1"] = last.inst
  /\ sess[last.inst].status = "connecting"
  /\ sess[last.inst].socket = NullSocket

\* C24: the configuration of a Session made by create(id, override) has, for
\* every field the override supplies a value for, that value, and for every
\* field the override omits the value of the base configuration.
C24_OverrideTakesPrecedence ==
  cfg.made
    => \A f \in ConfigFields :
         /\ cfg.override[f] \notin {Absent, Undefined}
              => cfg.config[f] = cfg.override[f]
         /\ cfg.override[f] = Absent
              => cfg.config[f] = cfg.base[f]

\* C27: saveMessage is an idempotent upsert: when a session saves a message
\* whose id it has saved before, each adapter holds exactly one row with that
\* id afterwards, and the row holds the content of this latest save.
C27_SaveMessageUpserts ==
  (ret.op = "saveMessage" /\ ret.hit)
    => /\ Cardinality({r \in sqlite.messages : r.id = ret.id}) = 1
       /\ Cardinality({r \in prisma.messages : r.id = ret.id}) = 1
       /\ \A r \in sqlite.messages \cup prisma.messages :
            r.id = ret.id => r.message = ret.data

C27_Witness ==
  /\ ret.op = "saveMessage"
  /\ ret.hit
  /\ ret.data = "m2"
  /\ \E r \in sqlite.messages : r.id = ret.id /\ r.message = "m2"
  /\ \E r \in prisma.messages : r.id = ret.id /\ r.message = "m2"

\* C28: records are keyed by (session, natural key): a saveMessage by one
\* session leaves what getMessages returns for every other session as it was,
\* also when the message id is one the other session has saved, and the saved
\* message is then returned by getMessages for the saving session.
C28_KeyedBySession ==
  [][ret'.op = "saveMessage"
       => /\ \A s \in TwoSessionIds \ {ret'.sessionId} : \A j \in Jids :
               /\ getMessages(sqlite', s, j) = getMessages(sqlite, s, j)
               /\ getMessages(prisma', s, j) = getMessages(prisma, s, j)
          /\ ret'.data \in getMessages(sqlite', ret'.sessionId, ret'.jid)
          /\ ret'.data \in getMessages(prisma', ret'.sessionId, ret'.jid)]_vars

\* C29: the two adapters are interchangeable: every call returns the same
\* result from both, and is rejected by both or by neither.
C29_AdaptersAgree == ret.sqlite = ret.prisma

\* C30, as stated: an input that already ends in @s.whatsapp.net, @g.us, @lid
\* or @broadcast is returned unchanged, and formatting the result of
\* formatJid again gives the same result.
C30_SuffixedUnchanged ==
  /\ (jid.pc \in {"formatted", "again"}
        /\ \E suffix \in Suffixes : endsWith(jid.input, suffix))
     => jid.out = jid.input
  /\ jid.pc = "again" => jid.again = jid.out

\* C30, amended: an input that already ends in one of the four suffixes is
\* returned with its leading white space removed and nothing else changed
\* (so unchanged when it starts with none), and formatting the result of
\* formatJid again, with any hints, gives the same result.
C30_FormatJidIdempotent ==
  /\ (jid.pc \in {"formatted", "again"}
        /\ \E suffix \in Suffixes : endsWith(jid.input, suffix))
     => \E x \in 1..Len(jid.input) :
          /\ jid.out = SubSeq(jid.input, x, Len(jid.input))
          /\ \A y \in 1..(x - 1) : jid.input[y] \in WhiteSpace
          /\ jid.input[x] \notin WhiteSpace
  /\ jid.pc = "again" => jid.again = jid.out

C30_Witness ==
  /\ jid.pc = "again"
  /\ \E suffix \in Suffixes : endsWith(jid.input, suffix)
  /\ jid.input[1] \in WhiteSpace
  /\ jid.out # jid.input
  /\ jid.again = jid.out

C32_StatusFollowsLifecycle ==
  [][\A i \in Inst :
       (sess[i].sessionId # NoId /\ sess'[i].sessionId = sess[i].sessionId)
         => /\ (sess[i].connPc = "idle" /\ sess'[i].connPc = "auth")
                 => sess'[i].status = "connecting"
            /\ (sess'[i].status \in {"qr", "connected"}
                  /\ sess'[i].status # sess[i].status)
                 => sess[i].status \in {"connecting", "qr"}]_vars

\* C33: on a connection.update carrying a QR code, status becomes 'qr' and a
\* qr.code event with the raw code is published on both buses; it carries the
\* rendered image when the configured qrCode format is 'base64' or 'all', and
\* none when it is 'terminal' or 'raw'.
C33_QrEventCarriesImage ==
  cfg.event.type = "qr.code"
    => /\ cfg.status = "qr"
       /\ cfg.event.qr = "code"
       /\ cfg.event.buses = {"session", "global"}
       /\ cfg.override.qrCode \in {"base64", "all"} => cfg.event.qrBase64 = "image"
       /\ cfg.override.qrCode \in {"terminal", "raw"} => cfg.event.qrBase64 = Undefined

\* C34, as stated: retryWithBackoff always terminates, calls fn at most
\* maxRetries times, returns the first result without calling fn again,
\* sleeps baseDelay * 2^i after the i-th failed attempt (from 0) except after
\* the last one, and when every attempt fails throws the last error.
C34_RetryThrowsLastError ==
  /\ <>(rty.pc \in {"idle", "returned", "threw"})
  /\ [](/\ rty.calls <= rty.maxRetries
        /\ rty.pc = "returned" => rty.calls = Len(rty.errs) + 1
        /\ Len(rty.slept) <= Len(rty.errs)
        /\ rty.slept = <<>> \/ Len(rty.slept) < rty.maxRetries
        /\ \A x \in 1..Len(rty.slept) : rty.slept[x] = rty.baseDelay * (2 ^ (x - 1))
        /\ rty.pc = "returned" => Len(rty.slept) = Len(rty.errs)
        /\ (rty.pc = "threw" /\ rty.errs # <<>>)
             => Len(rty.slept) = Len(rty.errs) - 1
        /\ rty.pc = "threw" => Len(rty.errs) = rty.maxRetries
        /\ (rty.pc = "threw" /\ rty.errs # <<>>)
             => rty.result = rty.errs[Len(rty.errs)])

\* C34, amended: as above, but what is thrown is the last rejection value
\* only when that value is truthy; when fn last rejected with a falsy value
\* (or was never called, maxRetries being 0) a new Error 'Max retries
\* exceeded' is thrown instead.
C34_RetryWithBackoff ==
  /\ <>(rty.pc \in {"idle", "returned", "threw"})
  /\ [](/\ rty.calls <= rty.maxRetries
        /\ rty.pc = "returned" => rty.calls = Len(rty.errs) + 1
        /\ Len(rty.slept) <= Len(rty.errs)
        /\ rty.slept = <<>> \/ Len(rty.slept) < rty.maxRetries
        /\ \A x \in 1..Len(rty.slept) : rty.slept[x] = rty.baseDelay * (2 ^ (x - 1))
        /\ rty.pc = "returned" => Len(rty.slept) = Len(rty.errs)
        /\ (rty.pc = "threw" /\ rty.errs # <<>>)
             => Len(rty.slept) = Len(rty.errs) - 1
        /\ rty.pc = "threw" => Len(rty.errs) = rty.maxRetries
        /\ rty.pc = "threw"
             => rty.result =
                  (IF rty.errs # <<>> /\ rty.errs[Len(rty.errs)] \in {"e1", "e2"}
                   THEN rty.errs[Len(rty.errs)]
                   ELSE "Error: Max retries exceeded"))

C34_Witness ==
  /\ rty.pc = "threw"
  /\ rty.maxRetries = 3
  /\ rty.calls = 3
  /\ rty.slept = <<1000, 2000>>
  /\ rty.errs = <<"e1", "e1", "e2">>
  /\ rty.result = "e2"

\* C35: once a reconnect or a logged-out reset has given a Session a new
\* socket, a further notification from the socket it replaced changes
\* nothing of the Session: not its socket reference, not its status, and it
\* schedules no reconnect.
C35_ReplacedSocketIsSilent ==
  [][\A k \in Sock :
       LET i == sock[k].owner IN
       ( /\ sock[k].phase = "closed"
         /\ sock'[k].phase = "free"
         /\ sess[i].socket \in Sock \ {k}
         /\ sess'[i].sessionId = sess[i].sessionId )
       => /\ sess'[i].socket = sess[i].socket
          /\ sess'[i].status = sess[i].status
          /\ sess'[i].rcPending = sess[i].rcPending
          /\ sess'[i].retryCount = sess[i].retryCount]_vars

\* C36: a Session whose status is 'connecting' has something in progress: a
\* connect() is running, a reconnect is scheduled, or it holds a socket that
\* has reported nothing yet (a stop() that is still running aside).
C36_ConnectingHasProgress ==
  \A i \in Inst :
    (Alive(i) /\ sess[i].status = "connecting")
      => \/ sess[i].isConnecting
         \/ sess[i].connPc # "idle"
         \/ sess[i].rcPending
         \/ sess[i].stopPc # "idle"
         \/ /\ sess[i].socket \in Sock
            /\ sock[sess[i].socket].phase = "conn"

\* C37: status and socket agree whenever no operation of the Session is
\* suspended: with status 'connected' or 'qr' it holds a socket, with status
\* 'disconnected' or 'error' it holds none.
C37_StatusMatchesSocket ==
  \A i \in Inst :
    (Alive(i) /\ sess[i].connPc = "idle" /\ sess[i].stopPc = "idle")
      => /\ sess[i].status \in {"connected", "qr"} => sess[i].socket # NullSocket
         /\ sess[i].status \in {"disconnected", "error"} => sess[i].socket = NullSocket

\* C38: when Session.start() resolves, the Session holds a socket.  start()
\* resolves either in the slice of the call itself, when connect() returns at
\* its guard, or in the slice in which the connect() it awaits makes the
\* socket.
C38_StartResolvesWithSocket ==
  [][\A i \in Inst :
       ( \/ /\ calls' = calls + 1
            /\ last'.op = "start" /\ last'.inst = i
            /\ sess'[i].connPc = "idle"
         \/ /\ sess[i].connPc = "socket" /\ sess[i].connBy = "start"
            /\ last'.op = "connect.socket" /\ last'.inst = i )
       => sess'[i].socket \in Sock]_vars

\* C39: the registry holds no entry for a Session whose start() rejected in
\* SessionRegistry.create: after a failed create(id), has(id) is false.
C39_FailedCreateLeavesNoEntry ==
  \A x \in 1..Len(registry) : ctrl[registry[x].obj].phase # "startFailed"
====
